---- MODULE Spec2Model ----
(***************************************************************************)
(* Model of the expense tracker (src/tracker): the entity store of        *)
(* models.py, the store operations of logic.py, the balance projection    *)
(* (calc_proj_bal), the spending aggregation (check_spending) and the     *)
(* persistence of storage.py (save_data, load_data).                      *)
(*                                                                         *)
(* Money is counted in thousandths of the currency unit, so that          *)
(* round(bal, 2) of update_bal is a real rounding to a multiple of 10.    *)
(* The amounts entered are whole cents.  Dates are records                 *)
(* [year, month, day]; date arithmetic goes through proleptic Gregorian   *)
(* ordinals as datetime.date does.                                         *)
(***************************************************************************)
EXTENDS Integers, Sequences, FiniteSets, TLC

VARIABLES
    budget_categories,  \* models.budget_categories: list of BudgetCategory
    transactions,       \* the list bound to the name transactions in logic.py
    balance_history,    \* models.balance_history: list of BalanceCheckpoint
    allocated,          \* number of Transaction objects created so far
    call,               \* the last call that returns a value: arguments and result
    models_transactions,\* models.transactions, the list storage.py and cli.py import
    rebound,            \* TRUE once logic.py has bound its name transactions to
                        \* a list of its own ("global transactions", logic.py 99)
    saves               \* the files of SAVES_DIR, by save name

vars == <<budget_categories, transactions, balance_history, allocated, call,
          models_transactions, rebound, saves>>

store == <<budget_categories, transactions, balance_history>>

\* Python's None
NoneVal == "None"

\* None where the value is otherwise an integer (an optional int argument)
NoInt == -1

\* None where the value is otherwise a BalanceCheckpoint
NoCheckpoint == [none |-> TRUE]

-----------------------------------------------------------------------------
(* Calendar: datetime.date, timedelta and dateutil's relativedelta *)

Date(y, m, d) == [year |-> y, month |-> m, day |-> d]

\* calendar.isleap, used by date arithmetic (not the is_leap of calc_proj_bal)
IsLeapYear(y) == (y % 4 = 0) /\ (y % 100 # 0 \/ y % 400 = 0)

DaysInMonth(y, m) ==
    IF m = 2 THEN (IF IsLeapYear(y) THEN 29 ELSE 28)
    ELSE IF m \in {4, 6, 9, 11} THEN 30 ELSE 31

DaysBeforeMonthTable == <<0, 31, 59, 90, 120, 151, 181, 212, 243, 273, 304, 334>>

DaysBeforeMonth(y, m) ==
    DaysBeforeMonthTable[m] + (IF m > 2 /\ IsLeapYear(y) THEN 1 ELSE 0)

DaysBeforeYear(y) ==
    LET p == y - 1 IN p * 365 + (p \div 4) - (p \div 100) + (p \div 400)

\* date.toordinal()
ToOrdinal(dt) == DaysBeforeYear(dt.year) + DaysBeforeMonth(dt.year, dt.month) + dt.day

\* date.fromordinal(n)
FromOrdinal(n) ==
    LET n0   == n - 1
        n400 == n0 \div 146097
        r400 == n0 % 146097
        n100 == r400 \div 36524
        r100 == r400 % 36524
        n4   == r100 \div 1461
        r4   == r100 % 1461
        n1   == r4 \div 365
        r1   == r4 % 365
        y    == n400 * 400 + 1 + n100 * 100 + n4 * 4 + n1
    IN  IF n1 = 4 \/ n100 = 4
        THEN Date(y - 1, 12, 31)
        ELSE LET est == (r1 + 50) \div 32
                 m   == IF DaysBeforeMonth(y, est) > r1 THEN est - 1 ELSE est
             IN  Date(y, m, r1 - DaysBeforeMonth(y, m) + 1)

\* date comparisons
DateLT(a, b) ==
    \/ a.year < b.year
    \/ a.year = b.year /\ a.month < b.month
    \/ a.year = b.year /\ a.month = b.month /\ a.day < b.day

DateLE(a, b) == a = b \/ DateLT(a, b)

\* (a - b).days
DaysBetween(a, b) == ToOrdinal(a) - ToOrdinal(b)

\* adding months without clamping the day
AddMonthsNoClamp(dt, n) ==
    LET k == (dt.month - 1) + n
    IN  Date(dt.year + (k \div 12), (k % 12) + 1, dt.day)

\* dt + relativedelta(months=n): the day is clamped to the target month's length
AddMonths(dt, n) ==
    LET k == (dt.month - 1) + n
        y == dt.year + (k \div 12)
        m == (k % 12) + 1
        last == DaysInMonth(y, m)
    IN  Date(y, m, IF dt.day > last THEN last ELSE dt.day)

\* date(y, m, d) raises ValueError unless the day exists
ValidDate(y, m, d) == y >= 1 /\ m \in 1..12 /\ d >= 1 /\ d <= DaysInMonth(y, m)

-----------------------------------------------------------------------------
(* Entities (models.py) *)

BudgetCategory(name, limit) ==
    [name |-> name, monthly_limit |-> limit, transactions |-> <<>>]

\* ref is the identity of the Transaction object; category holds the name of
\* the BudgetCategory object the transaction refers to, or NoneVal
Transaction(ref, amount, t_type, t_date, is_rec, rec_interval, category) ==
    [ref |-> ref, amount |-> amount, t_type |-> t_type, t_date |-> t_date,
     is_rec |-> is_rec, rec_interval |-> rec_interval, category |-> category]

BalanceCheckpoint(cp_date, amount) == [date |-> cp_date, amount |-> amount]

Indices(s) == 1..Len(s)

NoCall == [op |-> "none"]

\* no file of that name in SAVES_DIR
NoFile == [exists |-> FALSE]

\* the names save_data and load_data are called with
SaveNames == {"default"}

\* "from tracker.models import transactions" binds logic.transactions to the
\* list object of models.transactions
Init ==
    /\ budget_categories = <<>>
    /\ transactions = <<>>
    /\ balance_history = <<>>
    /\ allocated = 0
    /\ call = NoCall
    /\ models_transactions = <<>>
    /\ rebound = FALSE
    /\ saves = [name \in SaveNames |-> NoFile]

\* models.transactions after logic.py has changed its list in place to txs:
\* the same list unless logic.py has rebound its name
InPlace(txs) == IF rebound THEN models_transactions ELSE txs

-----------------------------------------------------------------------------
(* Store operations (logic.py) *)

HasCategory(cats, name) == \E i \in Indices(cats) : cats[i].name = name

\* an add_budget_category that sets the limit of a category that exists
add_budget_category_update(name, limit) ==
    /\ budget_categories' =
          IF HasCategory(budget_categories, name)
          THEN [i \in Indices(budget_categories) |->
                  IF budget_categories[i].name = name
                  THEN [budget_categories[i] EXCEPT !.monthly_limit = limit]
                  ELSE budget_categories[i]]
          ELSE Append(budget_categories, BudgetCategory(name, limit))
    /\ call' = NoCall
    /\ UNCHANGED <<transactions, balance_history, allocated,
                   models_transactions, rebound, saves>>

\* add_budget_category(name, limit)
add_budget_category(name, limit) ==
    /\ budget_categories' =
          IF HasCategory(budget_categories, name)
          THEN budget_categories
          ELSE Append(budget_categories, BudgetCategory(name, limit))
    /\ call' = NoCall
    /\ UNCHANGED <<transactions, balance_history, allocated,
                   models_transactions, rebound, saves>>

\* a delete_budget_category that leaves the transactions as they are
delete_budget_category_keep(category_name) ==
    LET kept == SelectSeq(budget_categories, LAMBDA cat : cat.name # category_name)
    IN  /\ budget_categories' = kept
        /\ call' = [op |-> "delete_budget_category", category_name |-> category_name,
                    ret |-> Len(kept) # Len(budget_categories)]
        /\ UNCHANGED <<transactions, balance_history, allocated,
                       models_transactions, rebound, saves>>

\* delete_budget_category(category_name)
delete_budget_category(category_name) ==
    LET kept == SelectSeq(budget_categories, LAMBDA cat : cat.name # category_name)
        found == Len(kept) # Len(budget_categories)
        unlinked == [i \in Indices(transactions) |->
                       IF transactions[i].category # NoneVal
                          /\ transactions[i].category = category_name
                       THEN [transactions[i] EXCEPT !.category = NoneVal]
                       ELSE transactions[i]]
    IN  /\ budget_categories' = kept
        /\ transactions' = IF found THEN unlinked ELSE transactions
        /\ models_transactions' =
              IF ~found THEN models_transactions
              ELSE IF ~rebound THEN unlinked
              ELSE \* the objects of models.transactions that logic's list holds too
                   [i \in Indices(models_transactions) |->
                      IF \E j \in Indices(unlinked) :
                            /\ unlinked[j].ref = models_transactions[i].ref
                            /\ unlinked[j].category = NoneVal
                      THEN [models_transactions[i] EXCEPT !.category = NoneVal]
                      ELSE models_transactions[i]]
        /\ call' = [op |-> "delete_budget_category", category_name |-> category_name,
                    ret |-> found]
        /\ UNCHANGED <<balance_history, allocated, rebound, saves>>

\* find_or_create_category(name): the category list after the call
find_or_create_category(cats, name) ==
    IF HasCategory(cats, name) THEN cats ELSE Append(cats, BudgetCategory(name, NoInt))

\* "if category_name:" is false for None and for the empty string
Truthy(category_name) == category_name # NoneVal /\ category_name # ""

\* add_transaction(amount, t_type, t_date, category_name, is_rec, rec_interval)
add_transaction(amount, t_type, t_date, category_name, is_rec, rec_interval) ==
    LET category == IF Truthy(category_name) THEN category_name ELSE NoneVal
        cats == IF Truthy(category_name)
                THEN find_or_create_category(budget_categories, category_name)
                ELSE budget_categories
        transaction == Transaction(allocated + 1, amount, t_type, t_date,
                                   is_rec, rec_interval, category)
    IN  /\ allocated' = allocated + 1
        /\ transactions' = Append(transactions, transaction)
        /\ models_transactions' = InPlace(Append(transactions, transaction))
        /\ budget_categories' =
              [i \in Indices(cats) |->
                  IF category # NoneVal /\ cats[i].name = category
                  THEN [cats[i] EXCEPT !.transactions = Append(@, transaction.ref)]
                  ELSE cats[i]]
        /\ call' = NoCall
        /\ UNCHANGED <<balance_history, rebound, saves>>

\* list.sort(key=lambda x: x.date): a stable sort by date
RECURSIVE InsertByDate(_, _)
InsertByDate(sorted, cp) ==
    IF sorted = <<>> THEN <<cp>>
    ELSE IF DateLT(cp.date, Head(sorted).date) THEN <<cp>> \o sorted
    ELSE <<Head(sorted)>> \o InsertByDate(Tail(sorted), cp)

RECURSIVE SortByDate(_)
SortByDate(cps) ==
    IF cps = <<>> THEN <<>>
    ELSE InsertByDate(SortByDate(SubSeq(cps, 1, Len(cps) - 1)), cps[Len(cps)])

\* a set_balance_checkpoint that keeps the old checkpoint of the date
set_balance_checkpoint_append(cp_date, amount) ==
    /\ balance_history' =
          SortByDate(Append(balance_history, BalanceCheckpoint(cp_date, amount)))
    /\ call' = NoCall
    /\ UNCHANGED <<budget_categories, transactions, allocated,
                   models_transactions, rebound, saves>>

\* set_balance_checkpoint(cp_date, amount)
set_balance_checkpoint(cp_date, amount) ==
    /\ balance_history' =
          SortByDate(Append(SelectSeq(balance_history, LAMBDA cp : cp.date # cp_date),
                            BalanceCheckpoint(cp_date, amount)))
    /\ call' = NoCall
    /\ UNCHANGED <<budget_categories, transactions, allocated,
                   models_transactions, rebound, saves>>

\* find_or_create_category(name) as a call of its own: the category returned
FindOrCreateCategory(name) ==
    LET cats == find_or_create_category(budget_categories, name)
    IN  /\ budget_categories' = cats
        /\ call' = [op |-> "find_or_create_category", name |-> name,
                    ret |-> cats[CHOOSE i \in Indices(cats) :
                                    /\ cats[i].name = name
                                    /\ \A j \in 1..(i - 1) : cats[j].name # name]]
        /\ UNCHANGED <<transactions, balance_history, allocated,
                       models_transactions, rebound, saves>>

\* hasattr(obj, attr): a dataclass instance has the fields of its class
HasAttr(obj, attr) == attr \in DOMAIN obj

\* the Transaction object a member list refers to
Object(ref) ==
    CHOOSE t \in {transactions[i] : i \in Indices(transactions)}
                 \cup {models_transactions[i] : i \in Indices(models_transactions)} :
        t.ref = ref

\* "[tr for tr in members if tr.id not in ids]": raised is TRUE when a member
\* has no attribute id
WithoutIds(members, ids) ==
    IF \E k \in Indices(members) : ~HasAttr(Object(members[k]), "id")
    THEN [raised |-> TRUE]
    ELSE [raised |-> FALSE,
          list |-> SelectSeq(members, LAMBDA ref : Object(ref).id \notin ids)]

\* delete_transaction(transaction_id): the loop stops at the first transaction
\* whose id cannot be read or is transaction_id
delete_transaction(transaction_id) ==
    LET stops == {i \in Indices(transactions) :
                     \/ ~HasAttr(transactions[i], "id")
                     \/ transactions[i].id = transaction_id}
        i == CHOOSE k \in stops : \A l \in stops : k <= l
        t == transactions[i]
        popped == SubSeq(transactions, 1, i - 1)
                      \o SubSeq(transactions, i + 1, Len(transactions))
        raised == [op |-> "delete_transaction", transaction_id |-> transaction_id,
                   status |-> "AttributeError"]
        returned(ret) == [op |-> "delete_transaction", transaction_id |-> transaction_id,
                          status |-> "ok", ret |-> ret]
    IN  IF stops = {}
        THEN /\ call' = returned(FALSE)
             /\ UNCHANGED <<budget_categories, transactions, balance_history, allocated,
                            models_transactions, rebound, saves>>
        ELSE IF ~HasAttr(t, "id")
        THEN \* t.id raises AttributeError
             /\ call' = raised
             /\ UNCHANGED <<budget_categories, transactions, balance_history, allocated,
                            models_transactions, rebound, saves>>
        ELSE IF t.category # NoneVal
                /\ \E c \in Indices(budget_categories) :
                      /\ budget_categories[c].name = t.category
                      /\ WithoutIds(budget_categories[c].transactions,
                                    {transaction_id}).raised
        THEN /\ call' = raised
             /\ UNCHANGED <<budget_categories, transactions, balance_history, allocated,
                            models_transactions, rebound, saves>>
        ELSE /\ budget_categories' =
                   [c \in Indices(budget_categories) |->
                       IF t.category # NoneVal /\ budget_categories[c].name = t.category
                       THEN [budget_categories[c] EXCEPT
                               !.transactions = WithoutIds(@, {transaction_id}).list]
                       ELSE budget_categories[c]]
             /\ transactions' = popped
             /\ models_transactions' = InPlace(popped)
             /\ call' = returned(TRUE)
             /\ UNCHANGED <<balance_history, allocated, rebound, saves>>

\* None where the value is otherwise a pair of dates
NoRange == <<>>

\* the condition of the loop of delete_transactions_by_criteria
MatchesCriteria(t, amount, t_type, date_range, category_name) ==
    /\ amount = NoInt \/ t.amount = amount
    /\ t_type = NoneVal \/ t.t_type = t_type
    /\ date_range = NoRange
          \/ (DateLE(date_range[1], t.t_date) /\ DateLE(t.t_date, date_range[2]))
    /\ category_name = NoneVal
          \/ (t.category # NoneVal /\ t.category = category_name)

\* delete_transactions_by_criteria(amount, t_type, date_range, category_name).
\* "transactions = [...]" binds the name of logic.py to a new list and leaves
\* the list of models.py as it is.
delete_transactions_by_criteria(amount, t_type, date_range, category_name) ==
    LET matching == {i \in Indices(transactions) :
                        MatchesCriteria(transactions[i], amount, t_type,
                                        date_range, category_name)}
        raised == [op |-> "delete_transactions_by_criteria", amount |-> amount,
                   t_type |-> t_type, date_range |-> date_range,
                   category_name |-> category_name, status |-> "AttributeError"]
    IN  IF \E i \in Indices(transactions) : ~HasAttr(transactions[i], "id")
        THEN \* t.id raises in the loop (line 97) or in the comprehension (line 99)
             /\ call' = raised
             /\ UNCHANGED <<budget_categories, transactions, balance_history, allocated,
                            models_transactions, rebound, saves>>
        ELSE LET to_delete == {transactions[i].id : i \in matching}
                 kept == SelectSeq(transactions, LAMBDA t : t.id \notin to_delete)
                 members_raise ==
                     \E c \in Indices(budget_categories) :
                         WithoutIds(budget_categories[c].transactions, to_delete).raised
             IN  /\ transactions' = kept
                 /\ rebound' = TRUE
                 /\ budget_categories' =
                       IF members_raise THEN budget_categories
                       ELSE [c \in Indices(budget_categories) |->
                               [budget_categories[c] EXCEPT
                                  !.transactions = WithoutIds(@, to_delete).list]]
                 /\ call' =
                       IF members_raise THEN raised
                       ELSE [op |-> "delete_transactions_by_criteria", amount |-> amount,
                             t_type |-> t_type, date_range |-> date_range,
                             category_name |-> category_name, status |-> "ok",
                             ret |-> Len(transactions) - Len(kept)]
                 /\ UNCHANGED <<balance_history, allocated, models_transactions, saves>>

-----------------------------------------------------------------------------
(* Balance projection (logic.py, calc_proj_bal) *)

\* round(x, 2) on thousandths: to the nearest multiple of 10, ties to even
Round2(x) ==
    LET r == x % 10
        lo == x - r
    IN  IF r < 5 THEN lo
        ELSE IF r > 5 THEN lo + 10
        ELSE IF (lo \div 10) % 2 = 0 THEN lo ELSE lo + 10

\* update_bal that adds the amount whatever the type
update_bal_add(bal, t_amount, t_type) == Round2(bal + t_amount)

\* update_bal(bal, t_amount, t_type)
update_bal(bal, t_amount, t_type) ==
    Round2(IF t_type = "income" THEN bal + t_amount ELSE bal - t_amount)

\* get_nearest_checkpoint that returns the first valid checkpoint
get_nearest_checkpoint_first(history, target_date) ==
    LET valid_cps == SelectSeq(history, LAMBDA cp : DateLE(cp.date, target_date))
    IN  IF valid_cps = <<>> THEN NoCheckpoint ELSE valid_cps[1]

\* get_nearest_checkpoint that looks only at the checkpoints before the target
get_nearest_checkpoint_before(history, target_date) ==
    LET valid_cps == SelectSeq(history, LAMBDA cp : DateLT(cp.date, target_date))
    IN  IF valid_cps = <<>> THEN NoCheckpoint ELSE valid_cps[Len(valid_cps)]

\* get_nearest_checkpoint(target_date): max(valid_cps, key=date), the first
\* of the maxima, or None
get_nearest_checkpoint(history, target_date) ==
    LET valid_cps == SelectSeq(history, LAMBDA cp : DateLE(cp.date, target_date))
    IN  IF valid_cps = <<>> THEN NoCheckpoint
        ELSE valid_cps[CHOOSE i \in Indices(valid_cps) :
                 /\ \A j \in Indices(valid_cps) : DateLE(valid_cps[j].date, valid_cps[i].date)
                 /\ \A j \in 1..(i - 1) : valid_cps[j].date # valid_cps[i].date]

\* is_leap with the Gregorian rule
is_leap_gregorian(c_date) ==
    (c_date.year % 4 = 0) /\ (c_date.year % 100 # 0 \/ c_date.year % 400 = 0)

\* is_leap of the yearly branch: "c_date.year % 4 and (...)" is truthy when
\* the year is NOT divisible by 4 and the parenthesis holds
is_leap(c_date) ==
    (c_date.year % 4 # 0) /\ (c_date.year % 100 # 0 \/ c_date.year % 400 = 0)

\* The branch "elif c_date > transaction.t_date" of a recurring transaction:
\* TRUE iff the interval's rule reaches a call of update_bal on c_date
RecurrenceDue(transaction, c_date) ==
    LET days == DaysBetween(c_date, transaction.t_date)
        t_date == transaction.t_date
    IN  IF transaction.rec_interval = "daily" /\ days > 0 THEN TRUE
        ELSE IF transaction.rec_interval = "weekly" /\ days > 0 /\ days % 7 = 0 THEN TRUE
        ELSE IF transaction.rec_interval = "monthly"
        THEN LET months_diff == (c_date.year - t_date.year) * 12
                                + (c_date.month - t_date.month)
             IN  months_diff > 0 /\ c_date = AddMonths(t_date, months_diff)
        ELSE IF transaction.rec_interval = "yearly"
        THEN IF t_date.month = 2 /\ t_date.day = 29
             THEN \/ is_leap(c_date) /\ c_date.month = 2 /\ c_date.day = 29
                  \/ ~is_leap(c_date) /\ c_date.month = 2 /\ c_date.day = 28
             ELSE /\ c_date.day = t_date.day
                  /\ c_date.month = t_date.month
                  /\ c_date.year > t_date.year
        ELSE FALSE

\* the loop body with "transaction.t_date <= c_date" for a one-time transaction
ContributesFromDate(transaction, c_date) ==
    IF DateLT(c_date, transaction.t_date) THEN FALSE
    ELSE IF ~transaction.is_rec THEN TRUE
    ELSE IF transaction.t_date = c_date THEN TRUE
    ELSE RecurrenceDue(transaction, c_date)

\* The body of the for loop of calc_proj_bal for one transaction on c_date:
\* TRUE iff it reaches a call of update_bal
Contributes(transaction, c_date) ==
    IF DateLT(c_date, transaction.t_date) THEN FALSE
    ELSE IF ~transaction.is_rec /\ transaction.t_date = c_date THEN TRUE
    ELSE IF ~transaction.is_rec THEN FALSE
    ELSE IF transaction.t_date = c_date THEN TRUE
    ELSE RecurrenceDue(transaction, c_date)

\* "for transaction in transactions" on one c_date, from index i on
RECURSIVE for_transactions(_, _, _, _)
for_transactions(txs, i, balance, c_date) ==
    IF i > Len(txs) THEN balance
    ELSE for_transactions(txs, i + 1,
            IF Contributes(txs[i], c_date)
            THEN update_bal(balance, txs[i].amount, txs[i].t_type)
            ELSE balance,
            c_date)

\* "while c_date <= target_date: ...; c_date += timedelta(days=1)" over the
\* ordinals lo..hi.  The iterations run in date order; the range is split in
\* halves only to keep the evaluation depth logarithmic, and the balance of the
\* first half is computed (it is a number) before the second half runs.
RECURSIVE while_loop(_, _, _, _)
while_loop(txs, balance, lo, hi) ==
    IF lo > hi THEN balance
    ELSE IF lo = hi THEN for_transactions(txs, 1, balance, FromOrdinal(lo))
    ELSE LET mid == (lo + hi) \div 2
             first == while_loop(txs, balance, lo, mid)
         IN  IF first \in Int THEN while_loop(txs, first, mid + 1, hi) ELSE first

\* min((t.t_date for t in transactions), default=today)
MinTxDate(txs, default) ==
    IF txs = <<>> THEN default
    ELSE txs[CHOOSE i \in Indices(txs) :
                \A j \in Indices(txs) : DateLE(txs[i].t_date, txs[j].t_date)].t_date

DateMin(a, b) == IF DateLT(b, a) THEN b ELSE a

\* a start that takes today's date when there is no checkpoint
StartDateToday(txs, history, target_date, today) ==
    LET bal_cp == get_nearest_checkpoint(history, target_date)
    IN  IF bal_cp # NoCheckpoint THEN bal_cp.date ELSE today

\* the cursor calc_proj_bal starts from
StartDate(txs, history, target_date, today) ==
    LET bal_cp == get_nearest_checkpoint(history, target_date)
    IN  IF bal_cp # NoCheckpoint THEN bal_cp.date
        ELSE DateMin(MinTxDate(txs, today), today)

\* calc_proj_bal(target_date), run when date.today() = today
calc_proj_bal(txs, history, target_date, today) ==
    LET bal_cp == get_nearest_checkpoint(history, target_date)
        balance == IF bal_cp # NoCheckpoint THEN bal_cp.amount ELSE 0
        c_date == StartDate(txs, history, target_date, today)
    IN  while_loop(txs, balance, ToOrdinal(c_date), ToOrdinal(target_date))

\* a projection that records its result as the checkpoint of the target date
CalcProjBalRecording(target_date, today) ==
    LET ret == calc_proj_bal(transactions, balance_history, target_date, today)
    IN  /\ call' = [op |-> "calc_proj_bal", target_date |-> target_date,
                    today |-> today, ret |-> ret]
        /\ balance_history' =
              SortByDate(Append(SelectSeq(balance_history,
                                          LAMBDA cp : cp.date # target_date),
                                BalanceCheckpoint(target_date, ret)))
        /\ UNCHANGED <<budget_categories, transactions, allocated,
                       models_transactions, rebound, saves>>

\* the call of calc_proj_bal as an operation on the store
CalcProjBal(target_date, today) ==
    /\ call' = [op |-> "calc_proj_bal", target_date |-> target_date, today |-> today,
                ret |-> calc_proj_bal(transactions, balance_history, target_date, today)]
    /\ UNCHANGED <<budget_categories, transactions, balance_history, allocated,
                   models_transactions, rebound, saves>>

\* the call of get_nearest_checkpoint as an operation on the store
GetNearestCheckpoint(target_date) ==
    /\ call' = [op |-> "get_nearest_checkpoint", target_date |-> target_date,
                ret |-> get_nearest_checkpoint(balance_history, target_date)]
    /\ UNCHANGED <<budget_categories, transactions, balance_history, allocated,
                   models_transactions, rebound, saves>>

-----------------------------------------------------------------------------
(* Spending aggregation (logic.py, set_timeframe and check_spending) *)

\* "x or default" for an optional int: None and 0 are falsy
OrElse(x, default) == IF x = NoInt \/ x = 0 THEN default ELSE x

\* set_timeframe(year, month, day) when date.today() = today.  target_date is
\* a date for "day" and "month" and the year number for "year"; raised is TRUE
\* when date(...) raises ValueError
set_timeframe(year, month, day, today) ==
    IF day # NoInt
    THEN LET y == OrElse(year, today.year)
             m == OrElse(month, today.month)
         IN  IF ValidDate(y, m, day)
             THEN [raised |-> FALSE, timeframe |-> "day", target_date |-> Date(y, m, day)]
             ELSE [raised |-> TRUE]
    ELSE IF month # NoInt
    THEN LET y == OrElse(year, today.year)
         IN  IF ValidDate(y, month, 1)
             THEN [raised |-> FALSE, timeframe |-> "month", target_date |-> Date(y, month, 1)]
             ELSE [raised |-> TRUE]
    ELSE IF year # NoInt
    THEN [raised |-> FALSE, timeframe |-> "year", target_date |-> year]
    ELSE [raised |-> FALSE, timeframe |-> "day", target_date |-> today]

\* a month filter that compares the month and not the year
PassesFilterMonthOnly(t, timeframe, target_date) ==
    IF timeframe = "day" /\ t.t_date = target_date THEN TRUE
    ELSE IF timeframe = "month" THEN t.t_date.month = target_date.month
    ELSE IF timeframe = "year" THEN t.t_date.year = target_date
    ELSE TRUE

\* the if/elif chain at the head of the loop body of check_spending: TRUE iff
\* the transaction is not skipped by a "continue"
PassesFilter(t, timeframe, target_date) ==
    IF timeframe = "day" /\ t.t_date = target_date THEN TRUE
    ELSE IF timeframe = "month"
    THEN t.t_date.year = target_date.year /\ t.t_date.month = target_date.month
    ELSE IF timeframe = "year"
    THEN t.t_date.year = target_date
    ELSE TRUE

ZeroFigures == [income |-> 0, expense |-> 0, net |-> 0]

\* a loop body that counts every amount as income in the totals
spending_step_income(acc, t, timeframe, target_date) ==
    IF acc.raised \/ ~PassesFilter(t, timeframe, target_date) THEN acc
    ELSE LET total == [acc.total EXCEPT !.income = @ + t.amount]
         IN  IF t.category = NoneVal
             THEN [acc EXCEPT !.raised = TRUE, !.total = total]
             ELSE IF t.category \in DOMAIN acc.categories
             THEN [acc EXCEPT
                     !.total = total,
                     !.categories[t.category][t.t_type] = @ + t.amount,
                     !.categories[t.category].net =
                         IF t.t_type = "income" THEN @ + t.amount ELSE @ - t.amount]
             ELSE [acc EXCEPT !.total = total]

\* one iteration of "for t in transactions" of check_spending on the
\* accumulator acc = [raised, total, categories]
spending_step(acc, t, timeframe, target_date) ==
    IF acc.raised \/ ~PassesFilter(t, timeframe, target_date) THEN acc
    ELSE LET total == [acc.total EXCEPT ![t.t_type] = @ + t.amount]
         IN  IF t.category = NoneVal
             THEN \* t.category.name raises AttributeError
                  [acc EXCEPT !.raised = TRUE, !.total = total]
             ELSE IF t.category \in DOMAIN acc.categories
             THEN [acc EXCEPT
                     !.total = total,
                     !.categories[t.category][t.t_type] = @ + t.amount,
                     !.categories[t.category].net =
                         IF t.t_type = "income" THEN @ + t.amount ELSE @ - t.amount]
             ELSE [acc EXCEPT !.total = total]

RECURSIVE spending_loop(_, _, _, _, _)
spending_loop(txs, i, acc, timeframe, target_date) ==
    IF i > Len(txs) THEN acc
    ELSE spending_loop(txs, i + 1, spending_step(acc, txs[i], timeframe, target_date),
                       timeframe, target_date)

\* str(n) padded with zeros to the given width
RECURSIVE ZeroPad(_, _)
ZeroPad(str, width) == IF Len(str) >= width THEN str ELSE ZeroPad("0" \o str, width)

\* date.isoformat()
IsoFormat(dt) ==
    ZeroPad(ToString(dt.year), 4) \o "-" \o ZeroPad(ToString(dt.month), 2)
        \o "-" \o ZeroPad(ToString(dt.day), 2)

\* a check_spending that lists only the categories that have members
check_spending_members(cats, txs, day, month, year, today) ==
    LET tf == set_timeframe(year, month, day, today)
    IN  IF tf.raised THEN [status |-> "ValueError"]
        ELSE LET acc0 == [raised |-> FALSE,
                          total |-> ZeroFigures,
                          categories |-> [name \in {cats[i].name : i \in
                                                      {j \in Indices(cats) :
                                                         cats[j].transactions # <<>>}}
                                            |-> ZeroFigures]]
                 acc == spending_loop(txs, 1, acc0, tf.timeframe, tf.target_date)
             IN  IF acc.raised THEN [status |-> "AttributeError"]
                 ELSE [status |-> "ok",
                       timeframe |-> tf.timeframe,
                       target_date |-> IF tf.timeframe = "year" THEN tf.target_date
                                       ELSE IsoFormat(tf.target_date),
                       totals |-> [acc.total EXCEPT
                                     !.net = acc.total.income - acc.total.expense],
                       categories |-> acc.categories]

\* check_spending(day, month, year) when date.today() = today
check_spending(cats, txs, day, month, year, today) ==
    LET tf == set_timeframe(year, month, day, today)
    IN  IF tf.raised THEN [status |-> "ValueError"]
        ELSE LET acc0 == [raised |-> FALSE,
                          total |-> ZeroFigures,
                          categories |-> [name \in {cats[i].name : i \in Indices(cats)}
                                            |-> ZeroFigures]]
                 acc == spending_loop(txs, 1, acc0, tf.timeframe, tf.target_date)
             IN  IF acc.raised THEN [status |-> "AttributeError"]
                 ELSE [status |-> "ok",
                       timeframe |-> tf.timeframe,
                       target_date |-> IF tf.timeframe = "year" THEN tf.target_date
                                       ELSE IsoFormat(tf.target_date),
                       totals |-> [acc.total EXCEPT
                                     !.net = acc.total.income - acc.total.expense],
                       categories |-> acc.categories]

\* the call of check_spending as an operation on the store
CheckSpending(day, month, year, today) ==
    /\ call' = [op |-> "check_spending", day |-> day, month |-> month, year |-> year,
                today |-> today,
                ret |-> check_spending(budget_categories, transactions,
                                       day, month, year, today)]
    /\ UNCHANGED <<budget_categories, transactions, balance_history, allocated,
                   models_transactions, rebound, saves>>

-----------------------------------------------------------------------------
(* Persistence (storage.py) and the clearing of the store *)

\* int(str) of a string of decimal digits
RECURSIVE ParseInt(_)
ParseInt(str) ==
    IF Len(str) = 0 THEN 0
    ELSE 10 * ParseInt(SubSeq(str, 1, Len(str) - 1))
         + (CHOOSE d \in 0..9 : ToString(d) = SubSeq(str, Len(str), Len(str)))

\* date.fromisoformat("YYYY-MM-DD")
FromIsoFormat(str) ==
    Date(ParseInt(SubSeq(str, 1, 4)), ParseInt(SubSeq(str, 6, 7)),
         ParseInt(SubSeq(str, 9, 10)))

\* the fields of the dataclass Transaction, the keywords its constructor takes
TransactionFields ==
    {"amount", "t_type", "t_date", "is_rec", "rec_interval", "desc", "category"}

\* the keys of a transaction entry of the document, which load_data passes to
\* the constructor as keywords
EntryKeys ==
    {"id", "amount", "t_type", "t_date", "is_rec", "rec_interval", "desc", "category"}

\* save_data(save_name): the document is built before the try block, so an
\* AttributeError of t.id leaves the function and no file is written.  The
\* numbers are written and read back by json as they are.
save_data(save_name) ==
    LET members == UNION {{budget_categories[c].transactions[k] :
                              k \in Indices(budget_categories[c].transactions)} :
                          c \in Indices(budget_categories)}
        before == [budget_categories |-> budget_categories,
                   transactions |-> models_transactions,
                   balance_history |-> balance_history]
        data ==
            [exists |-> TRUE,
             categories |->
                 [c \in Indices(budget_categories) |->
                     [name |-> budget_categories[c].name,
                      monthly_limit |-> budget_categories[c].monthly_limit,
                      transaction_ids |->
                          [k \in Indices(budget_categories[c].transactions) |->
                              Object(budget_categories[c].transactions[k]).id]]],
             transactions |->
                 [i \in Indices(models_transactions) |->
                     LET t == models_transactions[i]
                     IN  [id |-> t.id, amount |-> t.amount, t_type |-> t.t_type,
                          t_date |-> IsoFormat(t.t_date), is_rec |-> t.is_rec,
                          rec_interval |-> t.rec_interval, category |-> t.category]],
             checkpoints |->
                 [i \in Indices(balance_history) |->
                     [date |-> IsoFormat(balance_history[i].date),
                      amount |-> balance_history[i].amount]]]
    IN  IF \/ \E ref \in members : ~HasAttr(Object(ref), "id")
           \/ \E i \in Indices(models_transactions) :
                 ~HasAttr(models_transactions[i], "id")
        THEN /\ call' = [op |-> "save_data", save_name |-> save_name,
                         status |-> "AttributeError", before |-> before]
             /\ UNCHANGED <<budget_categories, transactions, balance_history, allocated,
                            models_transactions, rebound, saves>>
        ELSE /\ saves' = [saves EXCEPT ![save_name] = data]
             /\ call' = [op |-> "save_data", save_name |-> save_name,
                         status |-> "ok", ret |-> TRUE, before |-> before]
             /\ UNCHANGED <<budget_categories, transactions, balance_history, allocated,
                            models_transactions, rebound>>

\* budget_categories.clear(); transactions.clear(); balance_history.clear() on
\* the lists of models.py, as the callers of load_data do between saving and
\* loading.  after is the call of save_data the clearing follows, if any.
ClearStore ==
    /\ budget_categories' = <<>>
    /\ models_transactions' = <<>>
    /\ transactions' = IF rebound THEN transactions ELSE <<>>
    /\ balance_history' = <<>>
    /\ call' = [op |-> "clear",
                after |-> IF call.op = "save_data" THEN call ELSE NoCall]
    /\ UNCHANGED <<allocated, rebound, saves>>

\* load_data(save_name).  Transaction(id=...) raises TypeError, because id is
\* no field of the dataclass; the entry is skipped.
load_data(save_name) ==
    LET data == saves[save_name]
        accepted == EntryKeys \subseteq TransactionFields
        loaded == IF accepted
                  THEN [i \in Indices(data.transactions) |->
                          LET t_data == data.transactions[i]
                          IN  Transaction(allocated + i, t_data.amount, t_data.t_type,
                                          FromIsoFormat(t_data.t_date), t_data.is_rec,
                                          t_data.rec_interval,
                                          IF t_data.category # NoneVal
                                             /\ \E c \in Indices(data.categories) :
                                                   data.categories[c].name = t_data.category
                                          THEN t_data.category ELSE NoneVal)
                              @@ [id |-> t_data.id]]
                  ELSE <<>>
        after == IF call.op = "clear" THEN call.after ELSE NoCall
    IN  IF ~data.exists
        THEN /\ call' = [op |-> "load_data", save_name |-> save_name, ret |-> FALSE,
                         after |-> after]
             /\ UNCHANGED <<budget_categories, transactions, balance_history, allocated,
                            models_transactions, rebound, saves>>
        ELSE /\ models_transactions' = loaded
             /\ transactions' = IF rebound THEN transactions ELSE loaded
             /\ allocated' = allocated + Len(loaded)
             /\ budget_categories' =
                   [c \in Indices(data.categories) |->
                       [name |-> data.categories[c].name,
                        monthly_limit |-> data.categories[c].monthly_limit,
                        transactions |->
                            LET ids == data.categories[c].transaction_ids
                                known == SelectSeq(ids, LAMBDA t_id :
                                            \E i \in Indices(loaded) : loaded[i].id = t_id)
                            IN  [k \in Indices(known) |->
                                    (CHOOSE t \in {loaded[i] : i \in Indices(loaded)} :
                                        t.id = known[k]).ref]]]
             /\ balance_history' =
                   [i \in Indices(data.checkpoints) |->
                       BalanceCheckpoint(FromIsoFormat(data.checkpoints[i].date),
                                         data.checkpoints[i].amount)]
             /\ call' = [op |-> "load_data", save_name |-> save_name, ret |-> TRUE,
                         after |-> after]
             /\ UNCHANGED <<rebound, saves>>

-----------------------------------------------------------------------------
(* Bounds and input sets *)

\* transactions added in one run
MaxTx == 2

Kinds == {"income", "expense"}

\* (is_rec, rec_interval) pairs
OneTime == <<FALSE, NoneVal>>
Recurring(interval) == <<TRUE, interval>>

\* the store with both engines: categories, transactions around the turn of
\* the year 2023, one checkpoint date
StoreAmounts == {1000}
StoreTxInputs == {<<Date(2023, 1, 1), OneTime>>,
                  <<Date(2023, 12, 1), OneTime>>,
                  <<Date(2022, 12, 1), Recurring("monthly")>>}
TxCategoryNames == {NoneVal, "Food"}
NewCategoryNames == {"Rent"}
DeletedCategoryNames == {"Food"}
Limits == {30000}
StoreCpDates == {Date(2023, 1, 1)}
StoreCpAmounts == {10000}
StoreTargets == {Date(2023, 1, 1), Date(2023, 2, 1)}
SpendDays == {NoInt, 1}
SpendMonths == {NoInt, 12}
SpendYears == {NoInt, 2022}
Todays == {Date(2023, 1, 2)}

\* projection over a few days of January 2023
ProjAmounts == {2500}
ProjTxDates == {Date(2023, 1, 2), Date(2023, 1, 5)}
ProjRecs == {OneTime, Recurring("daily"), Recurring("weekly")}
ProjCpDates == {Date(2023, 1, 2), Date(2023, 1, 5)}
ProjCpAmounts == {10000, 20000}
ProjTargets == {Date(2023, 1, 1), Date(2023, 1, 4), Date(2023, 1, 9)}
ProjTodays == {Date(2022, 12, 30), Date(2023, 1, 20)}

\* the recurrence rules over months: every (is_rec, rec_interval) pair
EvalAmounts == {1000}
EvalTxDates == {Date(2023, 1, 30), Date(2023, 1, 31)}
EvalRecs == {OneTime, <<FALSE, "daily">>, Recurring(NoneVal), Recurring("daily"),
             Recurring("weekly"), Recurring("monthly"), Recurring("yearly")}
EvalTargets == {Date(2023, 1, 30), Date(2023, 2, 28), Date(2023, 3, 31)}
EvalTodays == {Date(2023, 1, 25), Date(2023, 6, 1)}

\* yearly recurrence over leap years
CalAmounts == {1000, 2500}
CalTxInputs == {<<Date(2020, 2, 29), Recurring("yearly")>>}
CalTargets == {Date(2020, 2, 29), Date(2021, 2, 28), Date(2021, 3, 1),
               Date(2024, 2, 28), Date(2024, 2, 29)}
CalTodays == {Date(2020, 1, 1), Date(2025, 6, 1)}

\* the checkpoint list and the search for the nearest checkpoint
CpDates == {Date(2023, 1, 1), Date(2023, 1, 15), Date(2023, 2, 1)}
CpAmounts == {10000, 15000}
CpTargets == {Date(2022, 12, 31), Date(2023, 1, 1), Date(2023, 1, 10),
              Date(2023, 1, 15), Date(2023, 2, 1), Date(2023, 3, 1)}

\* the categories and the deletions
CatNames == {"Food", "Rent"}
CatLimits == {NoInt, 30000}
CatTxInputs == {<<Date(2023, 1, 1), OneTime>>}
CatTxNames == {NoneVal, "Food", "Rent"}
CatDeletedNames == {"Food", "Rent", "Misc"}
TransactionIds == {1, 2}
Criteria == {<<NoInt, NoneVal, NoRange, NoneVal>>,
             <<1000, "expense", <<Date(2023, 1, 1), Date(2023, 1, 31)>>, "Food">>,
             <<NoInt, "income", NoRange, NoneVal>>}

\* saving and loading
SaveCatNames == {"Food"}
SaveLimits == {NoInt, 30000}
SaveTxInputs == {<<Date(2023, 1, 1), Recurring("monthly")>>}
SaveTxNames == {NoneVal, "Food"}
SaveCpDates == {Date(2023, 1, 1), Date(2023, 2, 1)}
SaveCpAmounts == {10000}

-----------------------------------------------------------------------------
(* Specifications *)

AddTransaction(amounts, kinds, dates_recs, names) ==
    /\ allocated < MaxTx
    /\ \E amount \in amounts, t_type \in kinds, dr \in dates_recs, name \in names :
          add_transaction(amount, t_type, dr[1], name, dr[2][1], dr[2][2])

\* the store with both engines
StoreAddTransaction ==
    AddTransaction(StoreAmounts, Kinds, StoreTxInputs, TxCategoryNames)

StoreAddBudgetCategory ==
    \E name \in NewCategoryNames, limit \in Limits : add_budget_category(name, limit)

StoreDeleteBudgetCategory ==
    \E name \in DeletedCategoryNames : delete_budget_category(name)

StoreSetBalanceCheckpoint ==
    \E cp_date \in StoreCpDates, amount \in StoreCpAmounts :
        set_balance_checkpoint(cp_date, amount)

StoreCalcProjBal ==
    \E target_date \in StoreTargets, today \in Todays : CalcProjBal(target_date, today)

StoreCheckSpending ==
    \E day \in SpendDays, month \in SpendMonths, year \in SpendYears, today \in Todays :
        CheckSpending(day, month, year, today)

Next ==
    \/ StoreAddTransaction
    \/ StoreAddBudgetCategory
    \/ StoreDeleteBudgetCategory
    \/ StoreSetBalanceCheckpoint
    \/ StoreCalcProjBal
    \/ StoreCheckSpending

Spec == Init /\ [][Next]_vars

\* the projection engine on uncategorised transactions and checkpoints
ProjAddTransaction ==
    AddTransaction(ProjAmounts, Kinds, ProjTxDates \X ProjRecs, {NoneVal})

ProjSetBalanceCheckpoint ==
    \E cp_date \in ProjCpDates, amount \in ProjCpAmounts :
        set_balance_checkpoint(cp_date, amount)

ProjCalcProjBal ==
    \E target_date \in ProjTargets, today \in ProjTodays : CalcProjBal(target_date, today)

NextProj ==
    \/ ProjAddTransaction
    \/ ProjSetBalanceCheckpoint
    \/ ProjCalcProjBal

SpecProj == Init /\ [][NextProj]_vars

\* the projection engine on every kind of recurrence
EvalAddTransaction ==
    AddTransaction(EvalAmounts, {"income"}, EvalTxDates \X EvalRecs, {NoneVal})

EvalCalcProjBal ==
    \E target_date \in EvalTargets, today \in EvalTodays : CalcProjBal(target_date, today)

NextEval ==
    \/ EvalAddTransaction
    \/ EvalCalcProjBal

SpecEval == Init /\ [][NextEval]_vars

\* the projection engine over leap years
CalAddTransaction ==
    AddTransaction(CalAmounts, Kinds, CalTxInputs, {NoneVal})

CalCalcProjBal ==
    \E target_date \in CalTargets, today \in CalTodays : CalcProjBal(target_date, today)

NextCal ==
    \/ CalAddTransaction
    \/ CalCalcProjBal

SpecCal == Init /\ [][NextCal]_vars

\* the checkpoint list
CpSetBalanceCheckpoint ==
    \E cp_date \in CpDates, amount \in CpAmounts : set_balance_checkpoint(cp_date, amount)

CpGetNearestCheckpoint ==
    \E target_date \in CpTargets : GetNearestCheckpoint(target_date)

NextCp ==
    \/ CpSetBalanceCheckpoint
    \/ CpGetNearestCheckpoint

SpecCp == Init /\ [][NextCp]_vars

\* the categories, the transactions and the deletions
CatAddBudgetCategory ==
    \E name \in CatNames, limit \in CatLimits : add_budget_category(name, limit)

CatFindOrCreateCategory ==
    \E name \in CatNames : FindOrCreateCategory(name)

CatAddTransaction ==
    AddTransaction(StoreAmounts, {"expense"}, CatTxInputs, CatTxNames)

CatDeleteBudgetCategory ==
    \E name \in CatDeletedNames : delete_budget_category(name)

CatDeleteTransaction ==
    \E transaction_id \in TransactionIds : delete_transaction(transaction_id)

CatDeleteTransactionsByCriteria ==
    \E c \in Criteria : delete_transactions_by_criteria(c[1], c[2], c[3], c[4])

NextCat ==
    \/ CatAddBudgetCategory
    \/ CatFindOrCreateCategory
    \/ CatAddTransaction
    \/ CatDeleteBudgetCategory
    \/ CatDeleteTransaction
    \/ CatDeleteTransactionsByCriteria

SpecCat == Init /\ [][NextCat]_vars

\* saving, clearing and loading
SaveAddBudgetCategory ==
    \E name \in SaveCatNames, limit \in SaveLimits : add_budget_category(name, limit)

SaveAddTransaction ==
    AddTransaction(StoreAmounts, {"expense"}, SaveTxInputs, SaveTxNames)

SaveSetBalanceCheckpoint ==
    \E cp_date \in SaveCpDates, amount \in SaveCpAmounts :
        set_balance_checkpoint(cp_date, amount)

SaveSaveData == \E save_name \in SaveNames : save_data(save_name)

SaveClearStore == ClearStore

SaveLoadData == \E save_name \in SaveNames : load_data(save_name)

NextSave ==
    \/ SaveAddBudgetCategory
    \/ SaveAddTransaction
    \/ SaveSetBalanceCheckpoint
    \/ SaveSaveData
    \/ SaveClearStore
    \/ SaveLoadData

SpecSave == Init /\ [][NextSave]_vars

-----------------------------------------------------------------------------
(* Reference definitions for the claims *)

IsProjCall == call.op = "calc_proj_bal"

\* +amount for income, -amount for expense
Signed(t) == IF t.t_type = "income" THEN t.amount ELSE 0 - t.amount

\* the signed sum of the contributions of txs[i..] on the date c_date
RECURSIVE DayContribution(_, _, _)
DayContribution(txs, i, c_date) ==
    IF i > Len(txs) THEN 0
    ELSE (IF Contributes(txs[i], c_date) THEN Signed(txs[i]) ELSE 0)
         + DayContribution(txs, i + 1, c_date)

\* the signed sum of the contributions on the dates with ordinals lo..hi
RECURSIVE ContributionSum(_, _, _)
ContributionSum(txs, lo, hi) ==
    IF lo > hi THEN 0
    ELSE IF lo = hi THEN DayContribution(txs, 1, FromOrdinal(lo))
    ELSE LET mid == (lo + hi) \div 2
         IN  ContributionSum(txs, lo, mid) + ContributionSum(txs, mid + 1, hi)

Checkpoints == {balance_history[i] : i \in Indices(balance_history)}

HasAnchor(target_date) == \E cp \in Checkpoints : DateLE(cp.date, target_date)

\* the latest checkpoint dated at or before target_date
Anchor(target_date) ==
    CHOOSE cp \in Checkpoints :
        /\ DateLE(cp.date, target_date)
        /\ \A other \in Checkpoints :
              DateLE(other.date, target_date) => DateLE(other.date, cp.date)

\* the earliest transaction date of a store that has transactions
Earliest ==
    CHOOSE dt \in {transactions[i].t_date : i \in Indices(transactions)} :
        \A i \in Indices(transactions) : DateLE(dt, transactions[i].t_date)

-----------------------------------------------------------------------------
(* Claims on the balance projection, checked under SpecProj *)

\* C1: when a checkpoint is dated at or before the target, calc_proj_bal
\* returns the amount of the latest such checkpoint plus the signed sum of all
\* contributions on the dates from the anchor date through the target date,
\* both inclusive; nothing else in the store enters the result.
C1_AnchoredProjection ==
    (IsProjCall /\ HasAnchor(call.target_date)) =>
        LET anchor == Anchor(call.target_date)
        IN  call.ret = anchor.amount
                       + ContributionSum(transactions, ToOrdinal(anchor.date),
                                         ToOrdinal(call.target_date))

\* C1 witness: two checkpoints, the projection anchored on the later one, a
\* one-time transaction before the anchor date that is left out and a one-time
\* income on the anchor date that is applied on top of the checkpoint
C1_Witness ==
    /\ IsProjCall
    /\ call.target_date = Date(2023, 1, 9)
    /\ Len(balance_history) = 2
    /\ Len(transactions) = 2
    /\ transactions[1].t_date = Date(2023, 1, 2) /\ ~transactions[1].is_rec
    /\ transactions[2].t_date = balance_history[2].date
    /\ ~transactions[2].is_rec /\ transactions[2].t_type = "income"
    /\ balance_history[1].amount # balance_history[2].amount
    /\ call.ret = balance_history[2].amount + transactions[2].amount

\* C2: when no checkpoint is dated at or before the target, calc_proj_bal
\* returns the signed sum of all contributions on the dates from
\* min(earliest transaction date, target) through the target, whatever today
\* is; it is 0 for a store without transactions and for a target before every
\* transaction date.
C2_UnanchoredProjection ==
    (IsProjCall /\ ~HasAnchor(call.target_date)) =>
        /\ call.ret =
              IF transactions = <<>> THEN 0
              ELSE ContributionSum(transactions,
                                   ToOrdinal(DateMin(Earliest, call.target_date)),
                                   ToOrdinal(call.target_date))
        /\ (\A i \in Indices(transactions) :
                DateLT(call.target_date, transactions[i].t_date)) => call.ret = 0

\* C2 witness: a checkpoint later than the target, today later than the
\* target, and two equal daily incomes that have each been applied three times
C2_Witness ==
    /\ IsProjCall
    /\ ~HasAnchor(call.target_date)
    /\ balance_history # <<>>
    /\ DateLT(call.target_date, call.today)
    /\ call.target_date = Date(2023, 1, 4)
    /\ Len(transactions) = 2
    /\ \A i \in {1, 2} :
          /\ transactions[i].t_date = Date(2023, 1, 2)
          /\ transactions[i].is_rec /\ transactions[i].rec_interval = "daily"
          /\ transactions[i].t_type = "income"
          /\ transactions[i].amount = 2500
    /\ call.ret = 15000

NoCheckpointWithin(d1, d2) ==
    \A cp \in Checkpoints : ~(DateLT(d1, cp.date) /\ DateLE(cp.date, d2))

\* the projection to d1 plus the contributions after d1 through the target of
\* the last call
AdditiveFrom(d1) ==
    calc_proj_bal(transactions, balance_history, d1, call.today)
    + ContributionSum(transactions, ToOrdinal(d1) + 1, ToOrdinal(call.target_date))

\* C3 as stated: for all dates D1 < D2 the projection to D2 is the projection
\* to D1 plus the signed sum of the contributions on the dates in (D1, D2],
\* also when a checkpoint is dated inside (D1, D2].
C3_Additive_Original ==
    IsProjCall =>
        \A d1 \in ProjTargets :
            DateLT(d1, call.target_date) => call.ret = AdditiveFrom(d1)

\* C3 amended: for all dates D1 < D2 with no checkpoint dated inside (D1, D2],
\* the projection to D2 is the projection to D1 plus the signed sum of the
\* contributions on the dates in (D1, D2].
C3_Additive ==
    IsProjCall =>
        \A d1 \in ProjTargets :
            (DateLT(d1, call.target_date) /\ NoCheckpointWithin(d1, call.target_date))
                => call.ret = AdditiveFrom(d1)

\* C3 witness: the projections to 2023-01-04 and to 2023-01-09 share the
\* anchor of 2023-01-02 and differ by what a recurring transaction contributes
\* in between
C3_Witness ==
    /\ IsProjCall
    /\ call.target_date = Date(2023, 1, 9)
    /\ HasAnchor(Date(2023, 1, 4))
    /\ NoCheckpointWithin(Date(2023, 1, 4), call.target_date)
    /\ \E i \in Indices(transactions) : transactions[i].is_rec
    /\ call.ret # calc_proj_bal(transactions, balance_history, Date(2023, 1, 4), call.today)
    /\ call.ret = AdditiveFrom(Date(2023, 1, 4))

-----------------------------------------------------------------------------
(* Claims on the recurrence rules *)

\* the ordinals of the dates the last projection visited
Visited ==
    ToOrdinal(StartDate(transactions, balance_history, call.target_date, call.today))
        .. ToOrdinal(call.target_date)

LeapDayYearly(t) ==
    t.is_rec /\ t.rec_interval = "yearly" /\ t.t_date.month = 2 /\ t.t_date.day = 29

\* C4 (checked under SpecCal): a recurring yearly transaction anchored on
\* February 29 contributes, in every later year the projection visits, on
\* exactly one date: February 28 in a common year, February 29 in a leap year.
C4_LeapDayAnchor ==
    IsProjCall =>
        \A i \in Indices(transactions) :
            LeapDayYearly(transactions[i]) =>
                \A n \in Visited :
                    LET d == FromOrdinal(n)
                    IN  d.year > transactions[i].t_date.year =>
                            (Contributes(transactions[i], d) <=>
                                /\ d.month = 2
                                /\ d.day = IF IsLeapYear(d.year) THEN 29 ELSE 28)

SingleLeapDayIncome ==
    /\ balance_history = <<>>
    /\ Len(transactions) = 1
    /\ LeapDayYearly(transactions[1])
    /\ transactions[1].t_date = Date(2020, 2, 29)
    /\ transactions[1].t_type = "income"

\* C5 (checked under SpecCal): with no checkpoint and one recurring yearly
\* income of amount a anchored on 2020-02-29, calc_proj_bal(2021-02-28)
\* returns a and calc_proj_bal(2024-02-29) returns 2a.
C5_LeapYearTest ==
    (IsProjCall /\ SingleLeapDayIncome) =>
        /\ call.target_date = Date(2021, 2, 28) => call.ret = transactions[1].amount
        /\ call.target_date = Date(2024, 2, 29) => call.ret = 2 * transactions[1].amount

\* C5 witness: the projection to 2024-02-29 of the income of 2.50 returned 5.00
C5_Witness ==
    /\ IsProjCall
    /\ SingleLeapDayIncome
    /\ transactions[1].amount = 2500
    /\ call.target_date = Date(2024, 2, 29)
    /\ call.ret = 5000

MonthsApart(from, to) == (to.year - from.year) * 12 + (to.month - from.month)

\* the day of the month of d's month that an anchor day falls on
ClampedDay(day, d) ==
    IF day > DaysInMonth(d.year, d.month) THEN DaysInMonth(d.year, d.month) ELSE day

\* the number of occurrences through the date d of a monthly transaction
\* anchored on a date at or before d
MonthlyOccurrences(t_date, d) ==
    IF d.day >= ClampedDay(t_date.day, d)
    THEN MonthsApart(t_date, d) + 1
    ELSE MonthsApart(t_date, d)

\* C6 (checked under SpecEval): a recurring monthly transaction contributes on
\* a date d after its date iff d lies m > 0 calendar months after the anchor
\* month and d is the anchor date advanced by m months with the day clamped to
\* the length of d's month: once in every calendar month after the anchor month.
C6_MonthlyRecurrence ==
    IsProjCall =>
        /\ \A i \in Indices(transactions) :
              (transactions[i].is_rec /\ transactions[i].rec_interval = "monthly") =>
                  \A n \in Visited :
                      LET d == FromOrdinal(n)
                          t_date == transactions[i].t_date
                      IN  DateLT(t_date, d) =>
                              (Contributes(transactions[i], d) <=>
                                  /\ MonthsApart(t_date, d) > 0
                                  /\ d.day = ClampedDay(t_date.day, d))
        /\ ( /\ Len(transactions) = 1
             /\ transactions[1].is_rec /\ transactions[1].rec_interval = "monthly"
             /\ DateLE(transactions[1].t_date, call.target_date) )
           => call.ret = transactions[1].amount
                         * MonthlyOccurrences(transactions[1].t_date, call.target_date)

\* C6 witness: a monthly income anchored on 2023-01-31, projected to
\* 2023-03-31, has been applied on 01-31, on 02-28 and on 03-31
C6_Witness ==
    /\ IsProjCall
    /\ Len(transactions) = 1
    /\ transactions[1].is_rec /\ transactions[1].rec_interval = "monthly"
    /\ transactions[1].t_date = Date(2023, 1, 31)
    /\ call.target_date = Date(2023, 3, 31)
    /\ Contributes(transactions[1], Date(2023, 2, 28))
    /\ call.ret = 3 * transactions[1].amount

\* C7 (checked under SpecEval): among the visited dates up to its own date a
\* transaction contributes on its date and on no earlier date, recurring or
\* not and whatever its interval; a one-time transaction contributes on no
\* date after its own.
C7_FirstOccurrence ==
    IsProjCall =>
        \A i \in Indices(transactions) :
            \A n \in Visited :
                LET d == FromOrdinal(n)
                    t == transactions[i]
                IN  /\ DateLE(d, t.t_date) => (Contributes(t, d) <=> d = t.t_date)
                    /\ (~t.is_rec /\ DateLT(t.t_date, d)) => ~Contributes(t, d)

\* C7 witness: a projection that started before both transaction dates and
\* ran for two months applied a recurring transaction without interval and a
\* one-time transaction with an interval once each
C7_Witness ==
    /\ IsProjCall
    /\ call.target_date = Date(2023, 3, 31)
    /\ call.today = Date(2023, 1, 25)
    /\ Len(transactions) = 2
    /\ <<transactions[1].is_rec, transactions[1].rec_interval>> = Recurring(NoneVal)
    /\ <<transactions[2].is_rec, transactions[2].rec_interval>> = <<FALSE, "daily">>
    /\ call.ret = transactions[1].amount + transactions[2].amount

-----------------------------------------------------------------------------
(* Claims on the engines and the store, checked under Spec *)

IsSpendCall == call.op = "check_spending"

SameArguments(c1, c2) ==
    /\ c1.op = c2.op
    /\ c1.op = "calc_proj_bal" => (c1.target_date = c2.target_date /\ c1.today = c2.today)
    /\ c1.op = "check_spending" =>
          (c1.day = c2.day /\ c1.month = c2.month /\ c1.year = c2.year
           /\ c1.today = c2.today)

\* C8: a call of calc_proj_bal or of check_spending leaves the transaction
\* list, the category list with the member lists and the checkpoint list as
\* they were, and a call repeated with the same arguments right after the
\* first returns the same result.
C8_EnginesReadOnly ==
    [][call'.op \in {"calc_proj_bal", "check_spending"} =>
          /\ budget_categories' = budget_categories
          /\ transactions' = transactions
          /\ balance_history' = balance_history
          /\ (call.op # "none" /\ SameArguments(call, call')) => call'.ret = call.ret]_vars

\* C8 witness: an engine has answered on a store that holds a category with a
\* member, two transactions and a checkpoint
C8_Witness ==
    /\ call.op \in {"calc_proj_bal", "check_spending"}
    /\ Len(transactions) = 2
    /\ balance_history # <<>>
    /\ \E i \in Indices(budget_categories) : budget_categories[i].transactions # <<>>
    /\ call.op = "calc_proj_bal" => call.ret # 0
    /\ call.op = "check_spending" => call.ret.status = "ok"

RECURSIVE SumSeq(_)
SumSeq(numbers) == IF numbers = <<>> THEN 0 ELSE Head(numbers) + SumSeq(Tail(numbers))

\* the sum of the amounts of the transactions of the given type that satisfy
\* Included
SumAmounts(txs, t_type, Included(_)) ==
    SumSeq([i \in Indices(txs) |->
              IF txs[i].t_type = t_type /\ Included(txs[i]) THEN txs[i].amount ELSE 0])

Figures(Included(_)) ==
    LET income == SumAmounts(transactions, "income", Included)
        expense == SumAmounts(transactions, "expense", Included)
    IN  [income |-> income, expense |-> expense, net |-> income - expense]

CategoryFigures(Included(_)) ==
    [name \in {budget_categories[i].name : i \in Indices(budget_categories)} |->
        LET InCategory(t) == Included(t) /\ t.category = name
        IN  Figures(InCategory)]

\* the result holds the totals and the category figures of exactly the
\* transactions that satisfy Included
ReportsExactly(Included(_)) ==
    /\ call.ret.totals = Figures(Included)
    /\ call.ret.categories = CategoryFigures(Included)

IsDayWindow ==
    call.day # NoInt \/ (call.month = NoInt /\ call.year = NoInt)

\* the day a day window resolves to
ResolvedDay ==
    IF call.day # NoInt
    THEN Date(IF call.year = NoInt THEN call.today.year ELSE call.year,
              IF call.month = NoInt THEN call.today.month ELSE call.month,
              call.day)
    ELSE call.today

\* C9: for a day window (a day given, or no argument at all) the result counts
\* a transaction iff its date is the resolved target day.
C9_DayWindow ==
    (IsSpendCall /\ IsDayWindow /\ call.ret.status = "ok") =>
        LET OnTheDay(t) == t.t_date = ResolvedDay
        IN  ReportsExactly(OnTheDay)

IsMonthWindow == call.day = NoInt /\ call.month # NoInt

IsYearWindow == call.day = NoInt /\ call.month = NoInt /\ call.year # NoInt

\* a transaction whose stored date lies in the month or year window of the call
InWindow(t) ==
    IF IsMonthWindow
    THEN /\ t.t_date.year = (IF call.year = NoInt THEN call.today.year ELSE call.year)
         /\ t.t_date.month = call.month
    ELSE t.t_date.year = call.year

\* C10: for a month window the result counts a transaction iff its stored date
\* has the year and the month of the window, for a year window iff it has the
\* year; a recurring transaction counts once, by its stored date alone.  (The
\* call returns no result when a transaction inside the window has no
\* category.)
C10_MonthYearWindow ==
    (IsSpendCall /\ (IsMonthWindow \/ IsYearWindow)) =>
        \/ /\ call.ret.status = "ok"
           /\ ReportsExactly(InWindow)
        \/ /\ call.ret.status = "AttributeError"
           /\ \E i \in Indices(transactions) :
                 InWindow(transactions[i]) /\ transactions[i].category = NoneVal

\* C10 witness: the report of December 2023 leaves out a monthly income stored
\* on 2022-12-01, although it recurs on 2023-12-01, and counts the expense
\* stored on 2023-12-01
C10_Witness ==
    /\ IsSpendCall /\ IsMonthWindow
    /\ call.month = 12 /\ call.year = NoInt /\ call.today.year = 2023
    /\ call.ret.status = "ok"
    /\ Len(transactions) = 2
    /\ transactions[1].t_date = Date(2022, 12, 1)
    /\ transactions[1].is_rec /\ transactions[1].t_type = "income"
    /\ Contributes(transactions[1], Date(2023, 12, 1))
    /\ transactions[2].t_date = Date(2023, 12, 1) /\ transactions[2].t_type = "expense"
    /\ call.ret.totals = [income |-> 0, expense |-> 1000, net |-> 0 - 1000]
    /\ call.ret.categories["Food"] = [income |-> 0, expense |-> 1000, net |-> 0 - 1000]

\* the window the arguments of the call describe
InCallWindow(t) == IF IsDayWindow THEN t.t_date = ResolvedDay ELSE InWindow(t)

\* C11: when the store holds a transaction with no category, check_spending
\* returns a result; for a month or year window its totals count every
\* transaction inside the window, the uncategorised ones included, and its
\* category entries count the categorised ones only.
C11_Uncategorised ==
    (/\ IsSpendCall
     /\ call.ret.status # "ValueError"
     /\ \E i \in Indices(transactions) :
           transactions[i].category = NoneVal /\ InCallWindow(transactions[i])) =>
        /\ call.ret.status = "ok"
        /\ (IsMonthWindow \/ IsYearWindow) => ReportsExactly(InWindow)

\* the transactions the filter of the call lets through (for a day window the
\* filter lets every transaction through, which is the subject of C9)
Included(t) ==
    LET tf == set_timeframe(call.year, call.month, call.day, call.today)
    IN  PassesFilter(t, tf.timeframe, tf.target_date)

\* C12: in a result of check_spending totals.income is the sum of the amounts
\* of the included income transactions, totals.expense the sum of the amounts
\* of the included expense transactions, and totals.net is totals.income minus
\* totals.expense.
C12_Totals ==
    (IsSpendCall /\ call.ret.status = "ok") =>
        /\ call.ret.totals.income = SumAmounts(transactions, "income", Included)
        /\ call.ret.totals.expense = SumAmounts(transactions, "expense", Included)
        /\ call.ret.totals.net = call.ret.totals.income - call.ret.totals.expense

\* C12 witness: an income and an expense of the same day, both in the window
\* of the call, give income 10.00, expense 10.00 and net 0; a store with two
\* expenses gives expense 20.00 and net -20.00
C12_Witness ==
    /\ IsSpendCall /\ call.ret.status = "ok"
    /\ Len(transactions) = 2
    /\ transactions[1].t_date = transactions[2].t_date
    /\ InCallWindow(transactions[1])
    /\ transactions[1].t_type = "expense" /\ transactions[2].t_type = "expense"
    /\ call.ret.totals = [income |-> 0, expense |-> 2000, net |-> 0 - 2000]

CategoryNames == {budget_categories[i].name : i \in Indices(budget_categories)}

CheckpointDates(history) == {history[i].date : i \in Indices(history)}

\* the list holds one checkpoint per date, in ascending order of the dates
SortedByDate(history) ==
    \A i, j \in Indices(history) : i < j => DateLT(history[i].date, history[j].date)

\* C14: the checkpoint list always holds at most one checkpoint per date and
\* is sorted ascending by date; a step that changes the list without changing
\* its dates (a checkpoint set on a date that has one) keeps the length and
\* every checkpoint in its place, and changes the amount of one date only; a
\* step that adds a date keeps all the checkpoints there were.
C14_Checkpoints ==
    /\ [](SortedByDate(balance_history)
          /\ Cardinality(CheckpointDates(balance_history)) = Len(balance_history))
    /\ [][IF CheckpointDates(balance_history') = CheckpointDates(balance_history)
          THEN /\ Len(balance_history') = Len(balance_history)
               /\ \A i \in Indices(balance_history) :
                     balance_history'[i].date = balance_history[i].date
               /\ Cardinality({i \in Indices(balance_history) :
                                  balance_history'[i] # balance_history[i]}) <= 1
          ELSE /\ Len(balance_history') = Len(balance_history) + 1
               /\ \A i \in Indices(balance_history) :
                     \E j \in Indices(balance_history') :
                         balance_history'[j] = balance_history[i]]_vars

\* C14 witness: three checkpoints set in any order stand in the order of
\* their dates, with both amounts among them
C14_Witness ==
    /\ Len(balance_history) = 3
    /\ balance_history[1].date = Date(2023, 1, 1)
    /\ balance_history[2].date = Date(2023, 1, 15)
    /\ balance_history[3].date = Date(2023, 2, 1)
    /\ balance_history[1].amount = 15000
    /\ balance_history[2].amount = 10000

IsNearestCall == call.op = "get_nearest_checkpoint"

\* C15: get_nearest_checkpoint(target) returns a checkpoint dated on or before
\* the target that no other such checkpoint is dated after, the checkpoint of
\* the target date when there is one, and returns none exactly when the list
\* is empty or every checkpoint is dated after the target.
C15_NearestCheckpoint ==
    IsNearestCall =>
        LET valid == {cp \in Checkpoints : DateLE(cp.date, call.target_date)}
        IN  /\ (call.ret = NoCheckpoint) <=>
                  (balance_history = <<>>
                   \/ \A cp \in Checkpoints : DateLT(call.target_date, cp.date))
            /\ valid # {} =>
                  /\ call.ret \in valid
                  /\ \A cp \in valid : DateLE(cp.date, call.ret.date)
            /\ (\E cp \in Checkpoints : cp.date = call.target_date) =>
                  call.ret.date = call.target_date

\* C15 witness: with checkpoints on 2023-01-01, 2023-01-15 and 2023-02-01 the
\* target 2023-01-15 returns the checkpoint of that date
C15_Witness ==
    /\ IsNearestCall
    /\ Len(balance_history) = 3
    /\ call.target_date = Date(2023, 1, 15)
    /\ call.ret = balance_history[2]

\* the number of times ref stands in the member list
Occurrences(members, ref) == Cardinality({k \in Indices(members) : members[k] = ref})

\* C16: every transaction of the store (models.transactions) that has a
\* category refers to a category of the category list and stands exactly once
\* in that category's member list, and every member of a category's list is a
\* transaction of the store that refers to that category.
C16_Bidirectional ==
    /\ \A i \in Indices(models_transactions) :
          LET t == models_transactions[i]
          IN  t.category # NoneVal =>
                 \E c \in Indices(budget_categories) :
                    /\ budget_categories[c].name = t.category
                    /\ Occurrences(budget_categories[c].transactions, t.ref) = 1
    /\ \A c \in Indices(budget_categories) :
          \A k \in Indices(budget_categories[c].transactions) :
             \E i \in Indices(models_transactions) :
                /\ models_transactions[i].ref = budget_categories[c].transactions[k]
                /\ models_transactions[i].category = budget_categories[c].name

\* C17: every transaction of the store has a numeric identifier that no other
\* transaction of the store has, and delete_transaction and save_data read
\* the identifiers without an AttributeError.
C17_Identifiers ==
    /\ \A i \in Indices(transactions) :
          /\ HasAttr(transactions[i], "id")
          /\ transactions[i].id \in Nat
          /\ \A j \in Indices(transactions) :
                (i # j /\ HasAttr(transactions[j], "id")) =>
                    transactions[j].id # transactions[i].id
    /\ call.op \in {"delete_transaction", "save_data"} => call.status # "AttributeError"

Limit(cats, name) ==
    cats[CHOOSE i \in Indices(cats) : cats[i].name = name].monthly_limit

NamesAndLimits(cats) ==
    [i \in Indices(cats) |-> <<cats[i].name, cats[i].monthly_limit>>]

\* C18: no two categories of the list have the same name; a step that adds no
\* name and removes none (add_budget_category or find_or_create_category with
\* a name that exists among them) leaves the names and the monthly limits of
\* the list as they were, no step changes the limit of a category that stays,
\* and find_or_create_category with a name that exists returns the category
\* of that name and leaves the list unchanged.
C18_UniqueNames ==
    /\ [](\A i, j \in Indices(budget_categories) :
             i # j => budget_categories[i].name # budget_categories[j].name)
    /\ [][/\ \A name \in CategoryNames \cap CategoryNames' :
                Limit(budget_categories', name) = Limit(budget_categories, name)
          /\ CategoryNames' = CategoryNames =>
                NamesAndLimits(budget_categories') = NamesAndLimits(budget_categories)
          /\ (call'.op = "find_or_create_category" /\ call'.name \in CategoryNames) =>
                /\ budget_categories' = budget_categories
                /\ \E i \in Indices(budget_categories) :
                      /\ budget_categories[i].name = call'.name
                      /\ call'.ret = budget_categories[i]]_vars

\* C18 witness: find_or_create_category("Food") has returned the category
\* that add_budget_category created with a limit and that has a member, from
\* a list of two categories
C18_Witness ==
    /\ call.op = "find_or_create_category" /\ call.name = "Food"
    /\ Len(budget_categories) = 2
    /\ call.ret.monthly_limit = 30000
    /\ call.ret.transactions # <<>>

\* C19: delete_budget_category(name) for a name of the category list returns
\* True, removes the category of that name and no other, keeps every
\* transaction in its place and sets to none the category of exactly the
\* transactions that referred to it; for any other name it returns False and
\* leaves the categories and the transactions as they were.
C19_DeleteCategory ==
    [][call'.op = "delete_budget_category" =>
          LET name == call'.category_name
          IN  IF name \in CategoryNames
              THEN /\ call'.ret = TRUE
                   /\ budget_categories' =
                         SelectSeq(budget_categories, LAMBDA cat : cat.name # name)
                   /\ Len(budget_categories') = Len(budget_categories) - 1
                   /\ Len(transactions') = Len(transactions)
                   /\ \A i \in Indices(transactions) :
                         transactions'[i] =
                             IF transactions[i].category = name
                             THEN [transactions[i] EXCEPT !.category = NoneVal]
                             ELSE transactions[i]
              ELSE /\ call'.ret = FALSE
                   /\ budget_categories' = budget_categories
                   /\ transactions' = transactions
                   /\ models_transactions' = models_transactions]_vars

\* C19 witness: delete_budget_category has returned True, the list holds the
\* other category with its member, and the store holds both transactions, one
\* without a category
C19_Witness ==
    /\ call.op = "delete_budget_category" /\ call.ret = TRUE
    /\ call.category_name = "Food"
    /\ CategoryNames = {"Rent"}
    /\ Len(transactions) = 2
    /\ transactions[1].category = NoneVal
    /\ transactions[2].category = "Rent"
    /\ budget_categories[1].transactions = <<transactions[2].ref>>

\* what save_data writes of a transaction, without the identifier
Content(t) ==
    [amount |-> t.amount, t_type |-> t.t_type, t_date |-> t.t_date, is_rec |-> t.is_rec,
     rec_interval |-> t.rec_interval, category |-> t.category]

Contents(txs) == [i \in Indices(txs) |-> Content(txs[i])]

\* load_data has returned, after a clearing of the store that followed a
\* save_data under the same name
IsReload ==
    /\ call.op = "load_data"
    /\ call.after.op = "save_data"
    /\ call.after.save_name = call.save_name

\* C20: after save_data(name), the clearing of the store and load_data(name),
\* load_data has returned True and the store holds the categories with the
\* limits, the transactions, each a member of the category of the name it
\* referred to, and the checkpoints that it held when save_data was called.
C20_SaveLoad ==
    IsReload =>
        LET before == call.after.before
        IN  /\ call.ret = TRUE
            /\ NamesAndLimits(budget_categories) = NamesAndLimits(before.budget_categories)
            /\ Contents(models_transactions) = Contents(before.transactions)
            /\ \A i \in Indices(models_transactions) :
                  models_transactions[i].category # NoneVal =>
                     \E c \in Indices(budget_categories) :
                        /\ budget_categories[c].name = models_transactions[i].category
                        /\ Occurrences(budget_categories[c].transactions,
                                       models_transactions[i].ref) = 1
            /\ balance_history = before.balance_history

IsCriteriaCall(c) == c.op = "delete_transactions_by_criteria"

\* C21: logic.py and models.py always hold the same transaction list, and a
\* call of delete_transactions_by_criteria returns the number of the
\* transactions that match every criterion given, removes exactly those from
\* that list and from every category's member list and keeps the others in
\* their order, so that the transactions add_transaction adds afterwards are
\* in models.transactions.
C21_DeleteByCriteria ==
    /\ [](models_transactions = transactions)
    /\ [][IsCriteriaCall(call') =>
             LET Matches(t) == MatchesCriteria(t, call'.amount, call'.t_type,
                                               call'.date_range, call'.category_name)
                 removed == {transactions[i].ref :
                                i \in {j \in Indices(transactions) :
                                          Matches(transactions[j])}}
             IN  /\ call'.status = "ok"
                 /\ call'.ret = Cardinality(removed)
                 /\ transactions' = SelectSeq(transactions, LAMBDA t : ~Matches(t))
                 /\ models_transactions' = transactions'
                 /\ Len(budget_categories') = Len(budget_categories)
                 /\ \A c \in Indices(budget_categories) :
                       budget_categories'[c] =
                           [budget_categories[c] EXCEPT
                              !.transactions =
                                  SelectSeq(@, LAMBDA ref : ref \notin removed)]]_vars

====
